---- MODULE Spec2Model ----
(***************************************************************************)
(* Waze-Blitzer-Alarm (src/alarm.js, the version of lines 165-359): a poll *)
(* loop that fetches police alerts, drops the ones already known (by id,   *)
(* then by distance and age against the persisted batch), fetches a map    *)
(* image and posts a webhook notification for each new alert, and writes   *)
(* the batch to data/data.json.                                            *)
(*                                                                         *)
(* Units.  Time is in milliseconds counted from a model epoch (the epoch   *)
(* only shifts Date values; the code uses differences).  Coordinates are   *)
(* integers in units of 1e-5 degree.  A JavaScript value that may be a     *)
(* number or a string is a record [kind, v].                               *)
(*                                                                         *)
(* Specifications.  Spec: the process started with a complete environment  *)
(* and no state file.  SpecConfig: started in any of Environments.         *)
(* SpecRestart: started again on the state file an earlier run left.       *)
(***************************************************************************)
EXTENDS Integers, Naturals, Sequences, FiniteSets, TLC

\* ------------------------------------------------------------------ bounds
MaxCycles == 3          \* calls of main() made by the poll loop
MaxFeed == 2            \* alerts in one API response
MaxInFlight == 2        \* calls of main() whose promise is pending at a time

\* --------------------------------------------------------------- constants
POLL_DELAY == 60000
THREE_HOURS_MS == 3 * 60 * 60 * 1000
DISTANCE_THRESHOLD == 200
StartTime == 10800000   \* Date.now() when the process starts (model epoch)

\* ------------------------------------------------------- JavaScript values
Num(n) == [kind |-> "number", v |-> n]
NaN == [kind |-> "NaN", v |-> 0]
Undefined == "undefined"

\* a - b where a is a number and b a number or a string: a date string such
\* as "1.11.2026, 12:47:00" converts to NaN
Minus(a, b) == IF b.kind = "number" THEN Num(a - b.v) ELSE NaN

\* a > m for a number or NaN a: every comparison with NaN is false
GreaterThan(a, m) == a.kind = "number" /\ a.v > m

\* new Date(ms).toLocaleString("de-DE", {timeZone: "Europe/Berlin"}):
\* the text "d.M.yyyy, HH:mm:ss", which names the second, not the millisecond
toLocaleString(since) == [kind |-> "string", v |-> since.v \div 1000]

\* alert.nThumbsUp || 0, the raw value being <<>> when absent, else <<n>>
OrZero(raw) == IF raw = <<>> THEN 0 ELSE raw[1]

\* `./img/${id}.png`
ImagePath(id) == "./img/" \o id \o ".png"

\* ------------------------------------------------------ distance (meters)
\* (R * pi/180 * 1e-5 m)^2 in cm^2, and the same times cos(49 deg)^2
LatCoef == 12364
LonCoef == 5322
MaxRoot == 46340

RECURSIVE CeilSqrtIn(_, _, _)
CeilSqrtIn(a, lo, hi) ==
  IF lo >= hi THEN hi
  ELSE LET mid == (lo + hi) \div 2
       IN IF mid * mid >= a THEN CeilSqrtIn(a, lo, mid)
                            ELSE CeilSqrtIn(a, mid + 1, hi)

\* the least n with n * n >= a
CeilSqrt(a) == CeilSqrtIn(a, 0, MaxRoot)

\* Haversine distance in meters, rounded up to a whole meter (so that
\* d <= 200 and d > 200 are decided as for the real d).  For points a few
\* hundred meters apart at latitude 49 deg, R * c is
\* sqrt((R dphi)^2 + cos(phi1) cos(phi2) (R dlambda)^2) to within a
\* centimeter; the squares are taken in cm^2.
calculateDistance(lat1, lon1, lat2, lon2) ==
  LET dphi == lat2 - lat1
      dlam == lon2 - lon1
      a == LatCoef * dphi * dphi + LonCoef * dlam * dlam
  IN (CeilSqrt(a) + 99) \div 100

\* ---------------------------------------------------------- the API's feed
Raw(uuid, type, y, x, pub, thumbs) ==
  [type |-> type, uuid |-> uuid, location |-> [x |-> x, y |-> y],
   nThumbsUp |-> thumbs, reportBy |-> Undefined, street |-> Undefined,
   pubMillis |-> pub]

\* a: reported 3 h before the third poll;  b: 199.04 m north of a;
\* c: 200.61 m east of a, reported 3 h before the second poll;
\* a2: the id of a, 55.6 m north of c;  d: not a police alert
RawAlerts ==
  { Raw("a", "POLICE", 4900000, 1205000, 120000, <<>>),
    Raw("b", "POLICE", 4900179, 1205000, StartTime, <<2>>),
    Raw("c", "POLICE", 4900000, 1205275, 60000, <<0>>),
    Raw("a", "POLICE", 4900050, 1205275, StartTime, <<>>),
    Raw("d", "JAM", 4900000, 1205000, StartTime, <<>>) }

Injective(s) == \A i, j \in DOMAIN s : s[i].uuid = s[j].uuid => i = j

\* the `alerts` array of one response: up to MaxFeed alerts, uuids distinct
Responses ==
  UNION { { s \in [1..n -> RawAlerts] : Injective(s) } : n \in 0..MaxFeed }

\* ------------------------------------------------------------- normalizer
RECURSIVE SelectIdx(_, _, _)
\* the indices k >= from of s with Keep[k], in increasing order
SelectIdx(Keep, n, from) ==
  IF from > n THEN <<>>
  ELSE (IF Keep[from] THEN <<from>> ELSE <<>>) \o SelectIdx(Keep, n, from + 1)

PoliceOnly(alerts) ==
  LET keep == [k \in DOMAIN alerts |-> alerts[k].type = "POLICE"]
      idx == SelectIdx(keep, Len(alerts), 1)
  IN [k \in DOMAIN idx |-> alerts[idx[k]]]

Normalize(alerts) ==
  [k \in DOMAIN alerts |->
    [id |-> alerts[k].uuid,
     x |-> alerts[k].location.x,
     y |-> alerts[k].location.y,
     nThumbsUp |-> OrZero(alerts[k].nThumbsUp),
     reportBy |-> alerts[k].reportBy,
     street |-> alerts[k].street,
     since |-> Num(alerts[k].pubMillis),
     image |-> Undefined]]

\* ------------------------------------------------------------ dedup filter
\* newAlerts is a sequence of indices into data: the filtered arrays hold
\* the very objects of data, so a later assignment to alert.image or
\* alert.since changes data as well.

\* the bug of comparing the whole alert where the id is meant
IsNewId_whole(alert, oldData) ==
  ~ \E k \in DOMAIN oldData :
      /\ oldData[k].id = alert.id
      /\ oldData[k].x = alert.x
      /\ oldData[k].y = alert.y

\* (alert) => !oldData.some((oldAlert) => oldAlert.id == alert.id)
IsNewId(alert, oldData) ==
  ~ \E k \in DOMAIN oldData : oldData[k].id = alert.id

IdentityPass(data, oldData) ==
  SelectIdx([k \in DOMAIN data |-> IsNewId(data[k], oldData)], Len(data), 1)

\* the bug of a distance test turned around
TooClose_inverted(alert, oldAlert, currentTime) ==
  LET timeDiff == Minus(currentTime, oldAlert.since)
  IN IF GreaterThan(timeDiff, THREE_HOURS_MS) THEN FALSE
     ELSE calculateDistance(alert.y, alert.x, oldAlert.y, oldAlert.x)
            >= DISTANCE_THRESHOLD

\* the bug of an age limit that excludes the limit itself
TooClose_exclusive(alert, oldAlert, currentTime) ==
  LET timeDiff == Minus(currentTime, oldAlert.since)
  IN IF timeDiff.kind = "number" /\ timeDiff.v >= THREE_HOURS_MS THEN FALSE
     ELSE calculateDistance(alert.y, alert.x, oldAlert.y, oldAlert.x)
            <= DISTANCE_THRESHOLD

\* the callback of oldData.some in the proximity filter
TooClose(alert, oldAlert, currentTime) ==
  LET timeDiff == Minus(currentTime, oldAlert.since)
  IN IF GreaterThan(timeDiff, THREE_HOURS_MS) THEN FALSE
     ELSE calculateDistance(alert.y, alert.x, oldAlert.y, oldAlert.x)
            <= DISTANCE_THRESHOLD

\* the bug of oldData.every where oldData.some is meant
KeepsDistance_every(alert, oldData, currentTime) ==
  ~ \A k \in DOMAIN oldData : TooClose(alert, oldData[k], currentTime)

KeepsDistance(alert, oldData, currentTime) ==
  ~ \E k \in DOMAIN oldData : TooClose(alert, oldData[k], currentTime)

ProximityPass(data, newAlerts, oldData, currentTime) ==
  LET keep == [k \in DOMAIN newAlerts |->
                 KeepsDistance(data[newAlerts[k]], oldData, currentTime)]
      idx == SelectIdx(keep, Len(newAlerts), 1)
  IN [k \in DOMAIN idx |-> newAlerts[idx[k]]]

\* ------------------------------------------------------------------- state
VARIABLES
  env,        \* process.env: BOUNDS (parsed), MAPBOX_TOKEN, WEBHOOK_URL
  proc,       \* "starting" (the module's top-level code up to the loop),
              \* "running", "exited" (SIGINT) or "crashed" (an uncaught
              \* throw or an unhandled rejection)
  now,        \* Date.now()
  nextStart,  \* when the loop's pending timer fires
  file,       \* data/data.json: [exists, content]
  img,        \* the paths of the files in img/
  cyc,        \* the calls of main(), by number: position, locals, and
              \* `events`, the history of the call's image fetches,
              \* webhook posts and state writes
  dropped     \* history: the alerts the proximity filter has dropped and
              \* that every response fetched since has held unchanged, with
              \* the time of the (first such) drop

vars == <<env, proc, now, nextStart, file, img, cyc, dropped>>

Cycles == 1..MaxCycles

\* pc: "idle" (not called yet), "fetch", "image", "post" (at the await of
\* the alert fetch, of an image fetch, of a webhook POST), "done" (returned),
\* "failed" (rejected), "gone" (its memory is released), "killed" (pending
\* when the process ended; only the history of what it had done is kept).
\* events: the history of the call's image fetches, answered webhook posts
\* and state writes; response: how its latest webhook POST ended
Blank(pc) ==
  [pc |-> pc, batch |-> <<>>, data |-> <<>>, oldData |-> <<>>,
   newAlerts |-> <<>>, currentTime |-> 0, i |-> 0, stream |-> "none",
   events |-> <<>>, response |-> "none"]

NoCycle == Blank("idle")

\* JSON.parse(process.env.BOUNDS || "null"): null, or an object with some keys
Null == [kind |-> "null", keys |-> {}]
Object(keys) == [kind |-> "object", keys |-> keys]

Coordinates == {"top", "bottom", "left", "right"}

Env(bounds, token, url) ==
  [BOUNDS |-> bounds, MAPBOX_TOKEN |-> token, WEBHOOK_URL |-> url]

FullEnv == Env(Object(Coordinates), "pk.token", "https://discord/webhook")

\* the environments the process is started in: complete, without one
\* coordinate of BOUNDS, without BOUNDS, without the token, without the URL
Environments ==
  { FullEnv,
    [FullEnv EXCEPT !.BOUNDS = Object(Coordinates \ {"right"})],
    [FullEnv EXCEPT !.BOUNDS = Null],
    [FullEnv EXCEPT !.MAPBOX_TOKEN = Undefined],
    [FullEnv EXCEPT !.WEBHOOK_URL = Undefined] }

\* !v of JavaScript, for null and objects and for strings
NotBounds(v) == v.kind = "null"
NotString(v) == v \in {Undefined, ""}

\* the process at its start, before the module's top-level code has run
Fresh ==
  /\ proc = "starting"
  /\ img = {}
  /\ cyc = [c \in Cycles |-> NoCycle]
  /\ dropped = {}

Init ==
  /\ env = FullEnv
  /\ Fresh
  /\ now = StartTime
  /\ nextStart = StartTime
  /\ file = [exists |-> FALSE, content |-> <<>>]

InFlight(c) == cyc[c].pc \in {"fetch", "image", "post"}

Event(op, id) == [op |-> op, id |-> id]

\* JSON.parse(JSON.stringify(data)): numbers and strings come back as they
\* were; a key whose value is undefined is left out and reads as undefined
JSONRoundTrip(data) == [k \in DOMAIN data |-> data[k]]

\* --------------------------------------------------------- the steps of main
RECURSIVE ImageLoop(_, _, _)
\* a notification loop that posts the last new alert only
PostStart_last(cy, j, dir) ==
  [cy EXCEPT !.pc = "post", !.i = Len(cy.newAlerts),
             !.stream = IF cy.data[cy.newAlerts[Len(cy.newAlerts)]].image \in dir
                        THEN "open" ELSE "error"]

\* the notification loop from alert j on, up to its await: the form is
\* built, the image opened for reading, the POST issued.  A stream on a
\* file that is gone errors, and the POST never gets a response
PostStart(cy, j, dir) ==
  [cy EXCEPT !.pc = "post", !.i = j,
             !.stream = IF cy.data[cy.newAlerts[j]].image \in dir
                        THEN "open" ELSE "error"]

\* the image loop from alert i on, up to its next await: alerts whose image
\* file exists take the path and are skipped, the first other one waits for
\* the map service; past the last alert the notification loop starts
ImageLoop(cy, i, dir) ==
  IF i > Len(cy.newAlerts) THEN PostStart(cy, 1, dir)
  ELSE LET k == cy.newAlerts[i]
           path == ImagePath(cy.data[k].id)
       IN IF path \in dir
          THEN ImageLoop([cy EXCEPT !.data[k].image = path], i + 1, dir)
          ELSE [cy EXCEPT !.pc = "image", !.i = i]

\* newAlerts.map(alert => { alert.since = ...toLocaleString(...) }) inside
\* console.table: the alerts are objects of data
LocalizeSince(data, newAlerts) ==
  LET hit == { newAlerts[k] : k \in DOMAIN newAlerts }
  IN [k \in DOMAIN data |->
        IF k \in hit THEN [data[k] EXCEPT !.since = toLocaleString(@)]
        ELSE data[k]]

\* A call that has returned shows its locals in the state it returned in;
\* the next step of the program finds them released.
Released(cy) == IF cy.pc = "done" THEN Blank("gone") ELSE cy

\* the calls after a step of call c that leaves it as cy
Step(c, cy) == [b \in Cycles |-> IF b = c THEN cy ELSE Released(cyc[b])]

\* what the end of the process leaves of call b: nothing of a pending one
Killed(b) ==
  IF InFlight(b) THEN [Blank("killed") EXCEPT !.events = cyc[b].events]
  ELSE Released(cyc[b])

\* lines 169-174: the configuration is read and checked; a throw at the top
\* level ends the process before the loop is entered
Startup ==
  /\ proc = "starting"
  /\ proc' = IF \/ NotBounds(env.BOUNDS)
               \/ NotString(env.MAPBOX_TOKEN)
               \/ NotString(env.WEBHOOK_URL)
            THEN "crashed" ELSE "running"
  /\ UNCHANGED <<env, now, nextStart, file, img, cyc, dropped>>

\* the loop: main() is called, not awaited, and the 60 s timer is set
StartCycle ==
  /\ proc = "running"
  /\ now = nextStart
  /\ Cardinality({ c \in Cycles : InFlight(c) }) < MaxInFlight
  /\ \E c \in Cycles :
       /\ cyc[c].pc = "idle"
       /\ \A b \in Cycles : b < c => cyc[b].pc # "idle"
       /\ cyc' = Step(c, [cyc[c] EXCEPT !.pc = "fetch"])
  /\ nextStart' = now + POLL_DELAY
  /\ UNCHANGED <<env, proc, now, file, img, dropped>>

\* time passes, up to the moment the timer fires
Tick ==
  /\ proc = "running"
  /\ now < nextStart
  /\ \E c \in Cycles : cyc[c].pc = "idle"
  /\ now' = nextStart
  /\ cyc' = [b \in Cycles |-> Released(cyc[b])]
  /\ UNCHANGED <<env, proc, nextStart, file, img, dropped>>

\* the bug (or the other reading) of a state write before the early return
AfterDedup_write(c, cy) ==
  /\ cyc' = Step(c, IF Len(cy.newAlerts) = 0
                    THEN [cy EXCEPT !.pc = "done"]
                    ELSE ImageLoop(cy, 1, img))
  /\ file' = IF Len(cy.newAlerts) = 0
             THEN [exists |-> TRUE, content |-> JSONRoundTrip(cy.data)]
             ELSE file
  /\ UNCHANGED img

\* if (newAlerts.length == 0) return; otherwise on to the image loop
AfterDedup(c, cy) ==
  /\ cyc' = Step(c, IF Len(cy.newAlerts) = 0
                    THEN [cy EXCEPT !.pc = "done"]
                    ELSE ImageLoop(cy, 1, img))
  /\ UNCHANGED <<file, img>>

\* the history of drops after a call has filtered `data` against `oldData`:
\* the drops of alerts the response no longer holds are forgotten, the
\* alerts this call's proximity filter drops are added with the time of
\* the drop
Drops(data, oldData, newAlerts) ==
  LET all == { data[k] : k \in DOMAIN data }
      kept == { d \in dropped : d.alert \in all }
      hit == { data[k] : k \in { j \in DOMAIN data :
                 /\ data[j].id \notin { oldData[m].id : m \in DOMAIN oldData }
                 /\ j \notin { newAlerts[m] : m \in DOMAIN newAlerts } } }
  IN kept \cup { [alert |-> x, at |-> now] : x \in hit \ { d.alert : d \in kept } }

\* the alert fetch and response.json() resolve: filter, normalize, read the
\* old data, dedup, return early or enter the image loop
AlertsFetched(c, alerts) ==
  /\ proc = "running"
  /\ cyc[c].pc = "fetch"
  /\ LET data == Normalize(PoliceOnly(alerts))
         oldData == IF file.exists THEN file.content ELSE <<>>
         currentTime == now
         newAlerts == ProximityPass(data, IdentityPass(data, oldData),
                                    oldData, currentTime)
         cy == [cyc[c] EXCEPT !.batch = data, !.data = data,
                              !.oldData = oldData, !.newAlerts = newAlerts,
                              !.currentTime = currentTime]
     IN /\ AfterDedup(c, cy)
        /\ dropped' = Drops(data, oldData, newAlerts)
  /\ UNCHANGED <<env, proc, now, nextStart>>

\* the map service answers: the bytes are written to img/<id>.png
ImageFetched(c) ==
  /\ proc = "running"
  /\ cyc[c].pc = "image"
  /\ LET cy == cyc[c]
         k == cy.newAlerts[cy.i]
         path == ImagePath(cy.data[k].id)
     IN /\ img' = img \cup {path}
        /\ cyc' = Step(c, ImageLoop([cy EXCEPT !.data[k].image = path,
                                        !.events = Append(@, Event("image",
                                                     cy.data[k].id))],
                                     cy.i + 1, img'))
  /\ UNCHANGED <<env, proc, now, nextStart, file, dropped>>

\* a notification loop that writes the state file after every post
WebhookResponded_writeEach(c, status) ==
  /\ proc = "running"
  /\ cyc[c].pc = "post"
  /\ cyc[c].stream = "open"
  /\ LET alert == cyc[c].data[cyc[c].newAlerts[cyc[c].i]]
         cy == [cyc[c] EXCEPT !.events = Append(Append(@, Event("post", alert.id)),
                                                Event("write", "")),
                              !.response = status]
     IN /\ file' = [exists |-> TRUE, content |-> JSONRoundTrip(cy.data)]
        /\ IF alert.image \notin img
           THEN /\ cyc' = [b \in Cycles |->
                             IF b = c THEN [cy EXCEPT !.pc = "failed"]
                             ELSE Killed(b)]
                /\ proc' = "crashed"
                /\ img' = img
           ELSE /\ img' = img \ {alert.image}
                /\ proc' = proc
                /\ cyc' = Step(c, IF cy.i < Len(cy.newAlerts)
                                  THEN PostStart(cy, cy.i + 1, img')
                                  ELSE [cy EXCEPT !.pc = "done"])
  /\ UNCHANGED <<env, now, nextStart, dropped>>

\* the webhook answers, with a success or an error status (fetch resolves
\* on both): the image is unlinked, then the next alert is posted or the
\* cycle ends with the write of data/data.json
WebhookResponded(c, status) ==
  /\ proc = "running"
  /\ cyc[c].pc = "post"
  /\ cyc[c].stream = "open"
  /\ LET alert == cyc[c].data[cyc[c].newAlerts[cyc[c].i]]
         cy == [cyc[c] EXCEPT !.events = Append(@, Event("post", alert.id)),
                              !.response = status]
     IN IF alert.image \notin img
        THEN \* fs.unlinkSync throws ENOENT
             /\ cyc' = [b \in Cycles |->
                          IF b = c THEN [cy EXCEPT !.pc = "failed"]
                          ELSE Killed(b)]
             /\ proc' = "crashed"
             /\ UNCHANGED <<file, img>>
        ELSE /\ img' = img \ {alert.image}
             /\ proc' = proc
             /\ IF cy.i < Len(cy.newAlerts)
                THEN /\ cyc' = Step(c, PostStart(cy, cy.i + 1, img'))
                     /\ file' = file
                ELSE LET data == LocalizeSince(cy.data, cy.newAlerts)
                     IN /\ file' = [exists |-> TRUE,
                                    content |-> JSONRoundTrip(data)]
                        /\ cyc' = Step(c, [cy EXCEPT !.data = data, !.pc = "done",
                                             !.events = Append(@, Event("write", ""))])
  /\ UNCHANGED <<env, now, nextStart, dropped>>

\* a runtime that only warns about an unhandled rejection: the loop goes on
AwaitRejected_warn(c) ==
  /\ proc = "running"
  /\ InFlight(c)
  /\ cyc' = Step(c, [cyc[c] EXCEPT !.pc = "failed",
                       !.response = IF cyc[c].pc = "post" THEN "rejected" ELSE @])
  /\ UNCHANGED <<env, proc, now, nextStart, file, img, dropped>>

\* an awaited promise of main rejects (alert fetch, response.json(), image
\* fetch, arrayBuffer(), webhook POST): the rejection of main() is handled
\* by nobody and ends the process, and with it the other pending calls
AwaitRejected(c) ==
  /\ proc = "running"
  /\ InFlight(c)
  /\ cyc' = [b \in Cycles |->
               IF b # c THEN Killed(b)
               ELSE [cyc[c] EXCEPT !.pc = "failed",
                       !.response = IF cyc[c].pc = "post" THEN "rejected" ELSE @]]
  /\ proc' = "crashed"
  /\ UNCHANGED <<env, now, nextStart, file, img, dropped>>

\* a handler that exits and leaves the image files behind
Sigint_keepImages ==
  /\ proc = "running"
  /\ proc' = "exited"
  /\ cyc' = [b \in Cycles |-> Killed(b)]
  /\ UNCHANGED <<env, now, nextStart, file, img, dropped>>

\* process.on("SIGINT"): every file of img/ is unlinked, process.exit()
Sigint ==
  /\ proc = "running"
  /\ img' = {}
  /\ proc' = "exited"
  /\ cyc' = [b \in Cycles |-> Killed(b)]
  /\ UNCHANGED <<env, now, nextStart, file, dropped>>

Next ==
  \/ Startup
  \/ StartCycle
  \/ Tick
  \/ \E c \in Cycles, alerts \in Responses : AlertsFetched(c, alerts)
  \/ \E c \in Cycles : ImageFetched(c)
  \/ \E c \in Cycles, status \in {"ok", "error"} : WebhookResponded(c, status)
  \/ \E c \in Cycles : AwaitRejected(c)
  \/ Sigint

Spec == Init /\ [][Next]_vars

\* the process started in any of the environments
InitConfig ==
  /\ env \in Environments
  /\ Fresh
  /\ now = StartTime
  /\ nextStart = StartTime
  /\ file = [exists |-> FALSE, content |-> <<>>]

SpecConfig == InitConfig /\ [][Next]_vars

\* data/data.json as a run of the program leaves it whose second poll, one
\* minute after its start, got alerts a and c with a in the state file of
\* the first poll: a is written as fetched, c (new, 200.61 m from a) with
\* its image path and its date text
EarlierFile ==
  LET a == CHOOSE r \in RawAlerts : r.uuid = "a" /\ r.pubMillis < StartTime
      c == CHOOSE r \in RawAlerts : r.uuid = "c"
      data == Normalize(<<a, c>>)
  IN JSONRoundTrip(LocalizeSince([data EXCEPT ![2].image = ImagePath("c")],
                                 <<2>>))

\* the process started again one minute after that poll: data/data.json is
\* on disk, img/ is empty
InitRestart ==
  /\ env = FullEnv
  /\ Fresh
  /\ now = StartTime + 2 * POLL_DELAY
  /\ nextStart = StartTime + 2 * POLL_DELAY
  /\ file = [exists |-> TRUE, content |-> EarlierFile]

SpecRestart == InitRestart /\ [][Next]_vars

TypeOK ==
  /\ proc \in {"starting", "running", "exited", "crashed"}
  /\ env \in Environments
  /\ now >= StartTime
  /\ \A c \in Cycles : cyc[c].pc \in {"idle", "fetch", "image", "post", "done", "failed", "gone", "killed"}

\* ============================================================== properties
\* a call of main whose dedup filter has run and whose locals are in view
Decided(c) == cyc[c].pc \in {"image", "post", "done", "failed"}

Range(s) == { s[k] : k \in DOMAIN s }
Ids(s) == { s[k].id : k \in DOMAIN s }
Dist(alert, oldAlert) ==
  calculateDistance(alert.y, alert.x, oldAlert.y, oldAlert.x)

\* alert k of the batch of call c has a fresh id and yet is no new alert
DroppedByProximity(c, k) ==
  /\ cyc[c].batch[k].id \notin Ids(cyc[c].oldData)
  /\ k \notin Range(cyc[c].newAlerts)

\* the latest report time (pubMillis) a stored `since` can stand for: the
\* number itself, or the last millisecond of the second a date text names
LatestReport(since) ==
  IF since.kind = "number" THEN since.v ELSE since.v * 1000 + 999

\* the earliest one
EarliestReport(since) ==
  IF since.kind = "number" THEN since.v ELSE since.v * 1000

\* C1: in every poll cycle, no new alert has the id of an alert of the prior
\* batch the cycle loaded, and the cycle fetches no image and posts no
\* notification for such an id.
C1_NoKnownIdIsNew ==
  \A c \in Cycles : Decided(c) =>
    /\ \A k \in Range(cyc[c].newAlerts) :
         cyc[c].data[k].id \notin Ids(cyc[c].oldData)
    /\ \A e \in Range(cyc[c].events) :
         e.op \in {"image", "post"} => e.id \notin Ids(cyc[c].oldData)

\* a cycle ran to its end and notified something, while an alert of its batch
\* had the id of a prior alert at another position and time and stayed out
C1_Witness ==
  \E c \in Cycles :
    /\ cyc[c].pc = "done"
    /\ \E e \in Range(cyc[c].events) : e.op = "post"
    /\ \E k \in DOMAIN cyc[c].batch, j \in DOMAIN cyc[c].oldData :
         /\ cyc[c].batch[k].id = cyc[c].oldData[j].id
         /\ cyc[c].batch[k].x # cyc[c].oldData[j].x
         /\ cyc[c].batch[k].since.v > LatestReport(cyc[c].oldData[j].since)
         /\ k \notin Range(cyc[c].newAlerts)

\* C2: a prior alert reported more than 3 hours before the processing time
\* never makes the proximity pass drop a new alert: an alert with a fresh id
\* that was dropped has a prior alert within 200 m that is not that old.
C2_OldPriorNeverSuppresses ==
  \A c \in Cycles : Decided(c) =>
    \A k \in DOMAIN cyc[c].batch : DroppedByProximity(c, k) =>
      \E j \in DOMAIN cyc[c].oldData :
        /\ Dist(cyc[c].batch[k], cyc[c].oldData[j]) <= DISTANCE_THRESHOLD
        /\ cyc[c].currentTime - LatestReport(cyc[c].oldData[j].since)
             <= THREE_HOURS_MS

\* C3: a prior alert farther than 200 m never makes the proximity pass drop
\* a new alert: an alert with a fresh id and farther than 200 m from every
\* prior alert is a new alert.
C3_FarAlertIsNew ==
  \A c \in Cycles : Decided(c) =>
    \A k \in DOMAIN cyc[c].batch :
      ( /\ cyc[c].batch[k].id \notin Ids(cyc[c].oldData)
        /\ \A j \in DOMAIN cyc[c].oldData :
             Dist(cyc[c].batch[k], cyc[c].oldData[j]) > DISTANCE_THRESHOLD )
      => k \in Range(cyc[c].newAlerts)

\* a new alert with a fresh id, 201 m from a prior alert that was reported
\* less than 3 hours ago
C3_Witness ==
  \E c \in Cycles :
    /\ Decided(c)
    /\ \E k \in Range(cyc[c].newAlerts), j \in DOMAIN cyc[c].oldData :
         /\ Dist(cyc[c].batch[k], cyc[c].oldData[j]) = DISTANCE_THRESHOLD + 1
         /\ cyc[c].currentTime - LatestReport(cyc[c].oldData[j].since)
              < THREE_HOURS_MS

\* C4: an alert with a fresh id is dropped whenever some prior alert has a
\* `since` at most 10,800,000 ms before the processing time and lies at most
\* 200 m away, both bounds included; the alert's own `since` plays no part.
\* (A `since` stored as a date text counts with every report time the text
\* can stand for.)
C4_NearRecentPriorSuppresses ==
  \A c \in Cycles : Decided(c) =>
    \A k \in DOMAIN cyc[c].batch :
      ( /\ cyc[c].batch[k].id \notin Ids(cyc[c].oldData)
        /\ \E j \in DOMAIN cyc[c].oldData :
             /\ cyc[c].currentTime - EarliestReport(cyc[c].oldData[j].since)
                  <= THREE_HOURS_MS
             /\ Dist(cyc[c].batch[k], cyc[c].oldData[j]) <= DISTANCE_THRESHOLD )
      => k \notin Range(cyc[c].newAlerts)

\* an alert dropped for a single prior alert, which is exactly 3 hours old
\* and exactly 200 m away; every other prior alert is farther
C4_Witness ==
  \E c \in Cycles :
    /\ Decided(c)
    /\ \E k \in DOMAIN cyc[c].batch, j \in DOMAIN cyc[c].oldData :
         /\ DroppedByProximity(c, k)
         /\ cyc[c].oldData[j].since.kind = "number"
         /\ cyc[c].currentTime - cyc[c].oldData[j].since.v = THREE_HOURS_MS
         /\ Dist(cyc[c].batch[k], cyc[c].oldData[j]) = DISTANCE_THRESHOLD
         /\ \A i \in DOMAIN cyc[c].oldData \ {j} :
              Dist(cyc[c].batch[k], cyc[c].oldData[i]) > DISTANCE_THRESHOLD

\* C5: at most one poll cycle is in the Processing state at any time.
C5_OneCycleAtATime ==
  Cardinality({ c \in Cycles : InFlight(c) }) <= 1

\* C6: after a poll cycle that ran to completion, the state file holds
\* exactly the normalized list of the POLICE alerts of the cycle's batch.
C6_FileHoldsBatch ==
  \A c \in Cycles : cyc[c].pc = "done" =>
    file.exists /\ file.content = cyc[c].batch

\* C7: a poll cycle whose dedup filter yields no new alert returns leaving
\* the state file and the image directory as they were, and neither it nor
\* any other call fetches an image, posts or writes in that step.
C7_QuietCycleChangesNothing ==
  [][ \A c \in Cycles :
        (cyc'[c].pc = "done" /\ cyc'[c].newAlerts = <<>>) =>
          /\ file' = file
          /\ img' = img
          /\ cyc'[c].events = <<>>
          /\ \A b \in Cycles \ {c} :
               cyc'[b].events = cyc[b].events \/ cyc[b].pc = "done" ]_vars

\* a cycle returned with no new alert although its batch differs from what
\* the state file holds
C7_Witness ==
  \E c \in Cycles :
    /\ cyc[c].pc = "done"
    /\ cyc[c].newAlerts = <<>>
    /\ cyc[c].batch # <<>>
    /\ file.exists
    /\ Ids(file.content) # Ids(cyc[c].batch)

\* C8: `since` is immutable: in every alert record of a call, and in every
\* record of the state file, it is the number pubMillis of the API.
C8_SinceIsPubMillis ==
  /\ \A c \in Cycles : \A k \in DOMAIN cyc[c].data :
       cyc[c].data[k].since = cyc[c].batch[k].since
  /\ \A k \in DOMAIN file.content : file.content[k].since.kind = "number"

\* C9: when the prior batch is empty, the new alerts are the whole normalized
\* batch, in its order.
C9_EmptyPriorKeepsAll ==
  \A c \in Cycles : (Decided(c) /\ cyc[c].oldData = <<>>) =>
    /\ cyc[c].newAlerts = [k \in 1..Len(cyc[c].batch) |-> k]
    /\ \A k \in DOMAIN cyc[c].batch : cyc[c].data[k].id = cyc[c].batch[k].id

\* a first cycle (no state file) ran to its end with a batch of two alerts
\* that lie within 200 m of each other
C9_Witness ==
  \E c \in Cycles :
    /\ cyc[c].pc = "done"
    /\ cyc[c].oldData = <<>>
    /\ Len(cyc[c].batch) = 2
    /\ Dist(cyc[c].batch[1], cyc[c].batch[2]) <= DISTANCE_THRESHOLD

\* C10: the notification step deletes the image of an alert only when the
\* notification succeeded: a POST that is rejected or answered with an error
\* status leaves the image file in place.
C10_FailedPostKeepsImage ==
  [][ \A c \in Cycles :
        ( /\ cyc[c].pc = "post"
          /\ cyc'[c] # cyc[c]
          /\ cyc'[c].pc \notin {"gone", "killed"}
          /\ cyc'[c].response # "ok" )
        => ( cyc[c].data[cyc[c].newAlerts[cyc[c].i]].image \in img
               => cyc[c].data[cyc[c].newAlerts[cyc[c].i]].image \in img' ) ]_vars

\* C11: when SIGINT is handled, whatever the calls of main are doing, the
\* image directory is left empty and that step sends no notification and
\* writes no state file; after it the process takes no step at all.
C11_SigintEndsAtOnce ==
  [][ /\ proc # "exited"
      /\ proc' = "exited" =>
           /\ img' = {}
           /\ file' = file
           /\ \A c \in Cycles : Len(cyc'[c].events) <= Len(cyc[c].events) ]_vars

\* the process has exited while a call of main that had fetched an image was
\* waiting for a response, and the loop had calls left to make
C11_Witness ==
  /\ proc = "exited"
  /\ img = {}
  /\ \E c \in Cycles :
       /\ cyc[c].pc = "killed"
       /\ \E k \in DOMAIN cyc[c].events : cyc[c].events[k].op = "image"
       /\ \A k \in DOMAIN cyc[c].events : cyc[c].events[k].op # "post"
  /\ \E c \in Cycles : cyc[c].pc = "idle"

\* every required value of the configuration is there
ConfigComplete ==
  /\ env.BOUNDS.kind = "object"
  /\ Coordinates \subseteq env.BOUNDS.keys
  /\ env.MAPBOX_TOKEN \notin {Undefined, ""}
  /\ env.WEBHOOK_URL \notin {Undefined, ""}

\* C12: if a coordinate of the bounding box, the access token or the
\* webhook URL is missing at startup, no poll cycle ever starts: no call of
\* main fetches alerts or images, posts or writes the state file.
C12_IncompleteConfigNeverPolls ==
  ~ConfigComplete =>
    /\ proc \in {"starting", "crashed"}
    /\ \A c \in Cycles : cyc[c].pc = "idle"
    /\ img = {}
    /\ ~file.exists

\* C13: a failure inside a poll cycle is caught by nobody: the step in which
\* a call of main fails ends the process, and from a state with a failed
\* call no step is taken, so no later poll cycle starts.
C13_FailedCycleStopsPolling ==
  [][ /\ \A c \in Cycles : cyc[c].pc # "failed"
      /\ \A c \in Cycles : cyc'[c].pc = "failed" =>
           /\ proc' = "crashed"
           /\ \A b \in Cycles \ {c} : ~(cyc[b].pc = "idle" /\ cyc'[b].pc # "idle") ]_vars

\* a call of main has failed at the await of its alert fetch while the loop
\* had calls left to make
C13_Witness ==
  /\ proc = "crashed"
  /\ \E c \in Cycles :
       /\ cyc[c].pc = "failed"
       /\ cyc[c].batch = <<>>
       /\ cyc[c].events = <<>>
  /\ \E c \in Cycles : cyc[c].pc = "idle"

\* the ids a call of main has posted, in the order of the posts
Posted(c) ==
  LET posts == SelectSeq(cyc[c].events, LAMBDA e : e.op = "post")
  IN [k \in DOMAIN posts |-> posts[k].id]

\* C14: no record of the state file has an `image` field, and an alert whose
\* image file was deleted after its notification has no `image` field any more.
C14_ImageIsTransient ==
  /\ \A k \in DOMAIN file.content : file.content[k].image = Undefined
  /\ \A c \in Cycles : \A k \in DOMAIN cyc[c].data :
       ( /\ cyc[c].pc \in {"post", "done"}
         /\ cyc[c].data[k].id \in Range(Posted(c))
         /\ cyc[c].data[k].image \notin img )
       => cyc[c].data[k].image = Undefined

\* C15: a call of main that returns has posted exactly the ids of its new
\* alerts, once each and in the order of the fetched batch; while a post is
\* pending, the posts before it (and no other) have been answered, and the
\* step that answers a post without failing leaves its image deleted.
C15_OnePostPerNewAlertInOrder ==
  [][ \A c \in Cycles :
        /\ cyc'[c].pc = "done" =>
             /\ Posted(c)' = [k \in DOMAIN cyc'[c].newAlerts |->
                                cyc'[c].batch[cyc'[c].newAlerts[k]].id]
             /\ \A j, k \in DOMAIN cyc'[c].newAlerts :
                  j < k => cyc'[c].newAlerts[j] < cyc'[c].newAlerts[k]
        /\ cyc'[c].pc = "post" => Len(Posted(c)') = cyc'[c].i - 1
        /\ ( /\ cyc[c].pc = "post"
             /\ cyc'[c].pc \in {"post", "done"}
             /\ Len(cyc'[c].events) > Len(cyc[c].events) )
           => cyc[c].data[cyc[c].newAlerts[cyc[c].i]].image \notin img' ]_vars

\* a call has returned after two posts
C15_Witness ==
  \E c \in Cycles :
    /\ cyc[c].pc = "done"
    /\ Len(Posted(c)) = 2
    /\ Len(cyc[c].batch) = 2

\* the number of state writes in the history of a call
Writes(events) == Len(SelectSeq(events, LAMBDA e : e.op = "write"))

\* C16: the step in which a call of main fails leaves the state file as it
\* is, and the failed call has written nothing; a call writes the state file
\* at most once, and only in the step that answers the post of its last new
\* alert, after every new alert has been posted.
C16_WriteOnceAtTheEnd ==
  [][ /\ \A c \in Cycles :
           /\ cyc'[c].pc = "failed" =>
                /\ file' = file
                /\ Writes(cyc'[c].events) = 0
           /\ Writes(cyc'[c].events) <= 1
           /\ Writes(cyc'[c].events) = 1 =>
                /\ cyc[c].pc = "post"
                /\ cyc'[c].pc = "done"
                /\ Len(Posted(c)') = Len(cyc'[c].newAlerts)
                /\ cyc'[c].events[Len(cyc'[c].events)].op = "write"
      /\ file' # file =>
           \E c \in Cycles : cyc'[c].pc = "done" /\ Writes(cyc'[c].events) = 1 ]_vars

\* a call has failed after its first post (at the second post or at the
\* unlink), with a state file that does not hold its batch
C16_Witness ==
  \E c \in Cycles :
    /\ cyc[c].pc = "failed"
    /\ Len(Posted(c)) >= 1
    /\ Len(cyc[c].newAlerts) = 2
    /\ (~file.exists \/ Ids(file.content) # Ids(cyc[c].batch))

\* C17: an id that every fetched batch holds from its first appearance on is
\* posted at most once.  Here for two consecutive calls of main whose
\* locals are both in view: an id in the batch of both is not posted by both.
C17_SteadyIdPostedOnce ==
  \A c \in Cycles : (c + 1) \in Cycles =>
    \A x \in Ids(cyc[c].batch) \cap Ids(cyc[c + 1].batch) :
      ~(x \in Range(Posted(c)) /\ x \in Range(Posted(c + 1)))

\* C18: an alert the proximity filter dropped is not notified by a later
\* call of main while every fetched batch holds it: no call has posted an
\* alert of its batch that was dropped before the call filtered the batch
\* and has stayed in the feed, unchanged, since.
C18_DroppedNeverNotified ==
  \A c \in Cycles : \A k \in DOMAIN cyc[c].batch :
    cyc[c].batch[k].id \in Range(Posted(c)) =>
      ~\E d \in dropped : d.alert = cyc[c].batch[k] /\ d.at < cyc[c].currentTime

\* the state file of InitRestart is one the program writes: a run from Init
\* has it on disk after its second poll
EarlierFileWritten ==
  /\ now = StartTime + POLL_DELAY
  /\ file = [exists |-> TRUE, content |-> EarlierFile]
=============================================================================
